---- MODULE Spec2Model ----
(***************************************************************************)
(* Model of the vehicle-usage application's trip-record store, the         *)
(* vehicle_form request handler (app/routes_user.py) and the mileage audit *)
(* audit_vehicle_mileage_and_alert (app/utils.py).                         *)
(*                                                                         *)
(* Text fields are sequences of one-character strings, so that strip(),    *)
(* replace(",", "") and int() are computed character by character.         *)
(***************************************************************************)
EXTENDS Integers, Sequences, FiniteSets, TLC

VARIABLES
    records,    \* the vehicle_request_form table: id -> row
    req,        \* per worker: the vehicle_form request it is handling
    finalized   \* history: ids of the rows that have been finalized to submitted

vars == <<records, req, finalized>>

\* Largest number of trip records the store holds in the model.
MaxRecords == 2

\* Python's None for an optional value: an optional integer, record or alert
\* is the empty tuple (None) or a one-element tuple holding the value.
None == <<>>

Some(x) == <<x>>

\* A NULL text column: no text of characters equals it.
NoneText == <<"NULL">>

-----------------------------------------------------------------------------
(* Text helpers: str.strip(), str.replace(",", ""), int(str).              *)

Whitespace == {" "}

Digits == <<"0", "1", "2", "3", "4", "5", "6", "7", "8", "9">>

IsDigit(c) == \E i \in 1..10 : Digits[i] = c

DigitVal(c) == (CHOOSE i \in 1..10 : Digits[i] = c) - 1

RECURSIVE LStrip(_)
LStrip(s) ==
    IF s # <<>> /\ Head(s) \in Whitespace THEN LStrip(Tail(s)) ELSE s

RECURSIVE RStrip(_)
RStrip(s) ==
    IF s # <<>> /\ s[Len(s)] \in Whitespace
    THEN RStrip(SubSeq(s, 1, Len(s) - 1))
    ELSE s

\* str.strip()
Strip(s) == RStrip(LStrip(s))

\* str.replace(",", "")
RemoveCommas(s) == SelectSeq(s, LAMBDA c : c # ",")

\* The digit groups int() accepts: digits, single underscores between digits.
RECURSIVE IsDigitBody(_)
IsDigitBody(s) ==
    /\ s # <<>>
    /\ IsDigit(Head(s))
    /\ \/ Len(s) = 1
       \/ IsDigitBody(Tail(s))
       \/ Len(s) >= 3 /\ s[2] = "_" /\ IsDigitBody(Tail(Tail(s)))

RECURSIVE DigitsValue(_, _)
DigitsValue(s, acc) ==
    IF s = <<>> THEN acc
    ELSE IF Head(s) = "_" THEN DigitsValue(Tail(s), acc)
    ELSE DigitsValue(Tail(s), 10 * acc + DigitVal(Head(s)))

\* int(s) of Python for a str: surrounding whitespace, an optional sign, then
\* the digit body; None stands for ValueError.
PyInt(s) ==
    LET t == Strip(s)
        signed == t # <<>> /\ Head(t) \in {"+", "-"}
        body == IF signed THEN Tail(t) ELSE t
    IN  IF ~IsDigitBody(body) THEN None
        ELSE IF signed /\ Head(t) = "-" THEN Some(0 - DigitsValue(body, 0))
        ELSE Some(DigitsValue(body, 0))

\* utils.parse_mileage_or_none
parse_mileage_or_none(v) ==
    IF v = NoneText THEN None
    ELSE LET s == Strip(v)
         IN  IF s = <<>> THEN None ELSE PyInt(RemoveCommas(s))

-----------------------------------------------------------------------------
(* Input sets.                                                             *)

Users == {"u1", "u2"}

Handlers == {1, 2}

\* vehicle texts: blank, a name, the same name with leading whitespace
VehicleTexts == {<<>>, <<"A">>, <<" ", "A">>}

\* mileage texts: empty, "0", "5" and "1,1" (a thousands separator: 11)
MileageTexts == {<<>>, <<"0">>, <<"5">>, <<"1", ",", "1">>}

Statuses == {"draft", "submitted"}

\* models.VehicleRequestForm: the columns the handler and the audit read
RecordType ==
    [email : Users, vehicle : VehicleTexts, start_mileage : MileageTexts,
     end_mileage : MileageTexts, status : Statuses]

-----------------------------------------------------------------------------
(* The queries and checks of audit_vehicle_mileage_and_alert.              *)

\* Reported gap threshold, in miles.
GapLimit == 5

RECURSIVE SortedSeq(_)
SortedSeq(S) ==
    IF S = {} THEN <<>>
    ELSE LET m == CHOOSE x \in S : \A y \in S : x <= y
         IN  <<m>> \o SortedSeq(S \ {m})

\* mutant: the status literal of the filter is wrong
others_query_wrong_status(store, vehicle, id) ==
    {i \in DOMAIN store :
        /\ store[i].vehicle = vehicle
        /\ store[i].status = "draft"
        /\ i # id}

\* filter_by(vehicle=vehicle, status="submitted").filter(id != rec.id)
others_query(store, vehicle, id) ==
    {i \in DOMAIN store :
        /\ store[i].vehicle = vehicle
        /\ store[i].status = "submitted"
        /\ i # id}

\* the loop building `parsed`: rows in primary-key order, rows whose start or
\* end mileage does not parse are skipped
RECURSIVE parsed_rows(_, _)
parsed_rows(store, ids) ==
    IF ids = <<>> THEN <<>>
    ELSE LET r == store[Head(ids)]
             s == parse_mileage_or_none(r.start_mileage)
             e == parse_mileage_or_none(r.end_mileage)
             rest == parsed_rows(store, Tail(ids))
         IN  IF s = None \/ e = None THEN rest
             ELSE <<(<<Head(ids), s[1], e[1]>>)>> \o rest

\* mutant: closed intervals, ranges that touch count as overlapping
RangesOverlap_closed(s0, e0, s, e) == (s0 <= e) /\ (e0 >= s)

\* (s0 < e) and (e0 > s)
RangesOverlap(s0, e0, s, e) == (s0 < e) /\ (e0 > s)

\* mutant: the overlap loop only asks for the start, a missing end is taken
\* as an open range
overlap_rows_open_end(s0, e0, parsed) ==
    IF s0 # None
    THEN SelectSeq(parsed, LAMBDA t : /\ s0[1] < t[3]
                                       /\ (e0 = None \/ e0[1] > t[2]))
    ELSE <<>>

\* the overlap loop: the rows of `parsed` that intersect the target's range
overlap_rows(s0, e0, parsed) ==
    IF s0 # None /\ e0 # None
    THEN SelectSeq(parsed, LAMBDA t : RangesOverlap(s0[1], e0[1], t[2], t[3]))
    ELSE <<>>

\* mutant: the gap check falls back to the newest row whose end mileage parses
prev_query_parsable_end(store, vehicle, id) ==
    LET ids == {i \in DOMAIN store :
                   /\ store[i].vehicle = vehicle
                   /\ store[i].status = "submitted"
                   /\ i # id
                   /\ parse_mileage_or_none(store[i].end_mileage) # None}
    IN  IF ids = {} THEN 0 ELSE CHOOSE x \in ids : \A y \in ids : y <= x

\* ...order_by(id.desc()).first(): the id of the row, 0 when there is none
prev_query(store, vehicle, id) ==
    LET ids == others_query(store, vehicle, id)
    IN  IF ids = {} THEN 0 ELSE CHOOSE x \in ids : \A y \in ids : y <= x

\* mutant: a gap of exactly the limit is flagged
GapFlagged_inclusive(s0, prev_e) == s0 - prev_e >= GapLimit

\* gap = s0 - prev_e; gap > 5
GapFlagged(s0, prev_e) == s0 - prev_e > GapLimit

\* the gap branch: prev and s0 is not None, prev_e is not None, gap > 5
gap_issue(store, prev, s0) ==
    IF prev # 0 /\ s0 # None
    THEN LET prev_e == parse_mileage_or_none(store[prev].end_mileage)
         IN  IF prev_e # None /\ GapFlagged(s0[1], prev_e[1])
             THEN <<(<<"gap">>)>> ELSE <<>>
    ELSE <<>>

\* the validity branch on the target's own mileage
validity_issue(s0, e0) ==
    IF s0 = None \/ e0 = None THEN <<(<<"invalid">>)>>
    ELSE IF e0[1] < s0[1] THEN <<(<<"end_lt_start", s0[1], e0[1]>>)>>
    ELSE <<>>

\* mutant: the overlap issue is appended inside the loop, once per row
overlap_issue_per_row(overlaps) ==
    [i \in 1..Len(overlaps) |-> <<"overlap", 1>>]

\* "Overlapping mileage range detected with N other record(s)."
overlap_issue(overlaps) ==
    IF overlaps # <<>> THEN <<(<<"overlap", Len(overlaps)>>)>> ELSE <<>>

\* mutant: the status guard is missing
rec_is_audited_any_status(store, id) == id \in DOMAIN store

\* `if not rec or rec.status != "submitted": return`
rec_is_audited(store, id) ==
    id \in DOMAIN store /\ store[id].status = "submitted"

\* mutant: the alert is sent whether or not there are issues
alert_needed_always(issues) == TRUE

\* `if not issues: return`, else the alert is built and sent
alert_needed(issues) == issues # <<>>

\* subject and body handed to send_mileage_error_alert
alert_of(r) ==
    [subject |-> <<r.vehicle, r.rid>>,
     body |-> [id |-> r.rid, email |-> r.rec[1].email,
               vehicle |-> r.rec[1].vehicle, s0 |-> r.s0, e0 |-> r.e0,
               findings |-> r.issues, overlapping |-> r.overlaps]]

-----------------------------------------------------------------------------
(* Request state: one entry per worker handling a vehicle_form request.    *)
(* pc: idle, audit_get, audit_others, audit_prev, send (inside the audit), *)
(* audit_return (the audit is over, its locals still in scope), done.      *)

IdleReq ==
    [pc |-> "idle", user |-> "u1", action |-> "save", rid |-> 0,
     rec |-> None, vehicle |-> <<>>, s0 |-> None, e0 |-> None,
     issues |-> <<>>, overlaps |-> <<>>, sends |-> 0, mail |-> "none",
     alert |-> None, exc |-> "none", committed |-> FALSE, resp |-> "none"]

\* the request that has just committed record id as submitted and calls the
\* audit with record.id
AuditingReq(user, id) ==
    [IdleReq EXCEPT !.pc = "audit_get", !.user = user, !.action = "submit",
                    !.rid = id, !.committed = TRUE]

\* a `return` of the audit, or the end of its body
AuditEnd(r) == [r EXCEPT !.pc = "audit_return"]

\* the response of a finished request; of the audit only its traces outside
\* the handler are kept (alerts handed to mail.send, log lines)
Responded(r, resp) ==
    [IdleReq EXCEPT !.pc = "done", !.action = r.action,
                    !.committed = r.committed, !.sends = r.sends,
                    !.mail = r.mail, !.exc = r.exc, !.resp = resp]

\* mutant: the audit blanks the end mileage of the record it examined
store_after_audit_clears_mileage(store, id) ==
    IF id \in DOMAIN store THEN [store EXCEPT ![id].end_mileage = <<>>]
    ELSE store

\* mutant: the audit puts the record it examined back to draft
store_after_audit_demotes(store, id) ==
    IF id \in DOMAIN store THEN [store EXCEPT ![id].status = "draft"]
    ELSE store

\* what the audit writes to the store: nothing
store_after_audit(store, id) == store

\* rec = VehicleRequestForm.query.get(record_id), the two guards, the parse
\* of the target's mileage and the validity issue
audit_get_rec(h) ==
    /\ req[h].pc = "audit_get"
    /\ LET r == req[h]
           id == r.rid
       IN  IF ~rec_is_audited(records, id)
           THEN req' = [req EXCEPT ![h] = AuditEnd(r)]
           ELSE LET rec == records[id]
                    vehicle == Strip(rec.vehicle)
                    s0 == parse_mileage_or_none(rec.start_mileage)
                    e0 == parse_mileage_or_none(rec.end_mileage)
                IN  IF vehicle = <<>>
                    THEN req' = [req EXCEPT ![h] = AuditEnd(r)]
                    ELSE req' = [req EXCEPT ![h] =
                            [r EXCEPT !.pc = "audit_others",
                                      !.rec = Some(rec),
                                      !.vehicle = vehicle,
                                      !.s0 = s0, !.e0 = e0,
                                      !.issues = validity_issue(s0, e0)]]
    /\ records' = store_after_audit(records, req[h].rid)
    /\ UNCHANGED finalized

\* the `others` query, the `parsed` loop and the overlap check
audit_query_others(h) ==
    /\ req[h].pc = "audit_others"
    /\ LET r == req[h]
           others == SortedSeq(others_query(records, r.vehicle, r.rid))
           parsed == parsed_rows(records, others)
           overlaps == overlap_rows(r.s0, r.e0, parsed)
       IN  req' = [req EXCEPT ![h] =
                      [r EXCEPT !.pc = "audit_prev",
                                !.overlaps = overlaps,
                                !.issues = r.issues \o overlap_issue(overlaps)]]
    /\ records' = store_after_audit(records, req[h].rid)
    /\ UNCHANGED finalized

\* the `prev` query, the gap check, `if not issues: return`, and the alert
\* text; the audit goes on to send_mileage_error_alert when there are issues
audit_query_prev(h) ==
    /\ req[h].pc = "audit_prev"
    /\ LET r == req[h]
           prev == prev_query(records, r.vehicle, r.rid)
           issues == r.issues \o gap_issue(records, prev, r.s0)
           r2 == [r EXCEPT !.issues = issues]
       IN  IF alert_needed(issues)
           THEN req' = [req EXCEPT ![h] =
                           [r2 EXCEPT !.pc = "send",
                                      !.alert = Some(alert_of(r2))]]
           ELSE req' = [req EXCEPT ![h] = AuditEnd(r2)]
    /\ records' = store_after_audit(records, req[h].rid)
    /\ UNCHANGED finalized

\* what a failed mail.send leaves of the request: the except clause of
\* send_mileage_error_alert logs and returns
after_mail_failure(r) == AuditEnd([r EXCEPT !.mail = "failed"])

\* utils.send_mileage_error_alert: no ALERT_EMAIL (skipped), mail.send
\* succeeds (sent) or raises (failed)
send_mileage_error_alert(h) ==
    /\ req[h].pc = "send"
    /\ LET r == [req[h] EXCEPT !.sends = @ + 1]
       IN  \/ req' = [req EXCEPT ![h] = AuditEnd([r EXCEPT !.mail = "skipped"])]
           \/ req' = [req EXCEPT ![h] = AuditEnd([r EXCEPT !.mail = "sent"])]
           \/ req' = [req EXCEPT ![h] = after_mail_failure(r)]
    /\ records' = store_after_audit(records, req[h].rid)
    /\ UNCHANGED finalized

\* mutant: no try/except around the audit call, the error leaves the handler
after_audit_exception_raised(r) ==
    Responded([r EXCEPT !.exc = r.pc], "error500")

\* what a store error raised inside the audit leaves of the request: the
\* `except Exception` of vehicle_form logs it and the handler goes on to its
\* return (exc keeps the place of the failed query)
after_audit_exception(r) == AuditEnd([r EXCEPT !.exc = r.pc])

\* a query of the audit raises (the store is unreachable, the session broke)
audit_store_error(h) ==
    /\ req[h].pc \in {"audit_get", "audit_others", "audit_prev"}
    /\ req' = [req EXCEPT ![h] = after_audit_exception(req[h])]
    /\ records' = store_after_audit(records, req[h].rid)
    /\ UNCHANGED finalized

-----------------------------------------------------------------------------
(* The vehicle_form handler (POST) and the admin's "Clear Database".       *)

\* departure / return date texts: a date in %Y-%m-%d form, anything else
DateTexts == {<<"D">>, <<"x">>}

Actions == {"save", "submit"}

\* what a form carries for the columns of the model
FormType(vehicles, starts, ends) ==
    [vehicle : vehicles, start_mileage : starts, end_mileage : ends]

\* utils.parse_date_or_none: TRUE when strptime raises ValueError
parse_date_raises(s) == Strip(s) # <<>> /\ Strip(s) # <<"D">>

\* the id the store gives a new row: one more than the largest id in use
new_id(store) ==
    IF DOMAIN store = {} THEN 1
    ELSE 1 + (CHOOSE x \in DOMAIN store : \A y \in DOMAIN store : y <= x)

\* record.status = "draft" if action == "save" else "submitted"
status_of_action(action) == IF action = "save" THEN "draft" ELSE "submitted"

\* db.session.add(record); db.session.commit()
store_after_commit(store, id, rec) ==
    [i \in DOMAIN store \cup {id} |-> IF i = id THEN rec ELSE store[i]]

\* the POST branch of vehicle_form up to the commit, and the return of a save;
\* a submit goes on to the audit with record.id. The form is drawn from forms.
vehicle_form(h, user, draft_id, action, dep_date, ret_date, forms) ==
    /\ req[h].pc \in {"idle", "done"}
    /\ LET r == [IdleReq EXCEPT !.user = user, !.action = action]
       IN  IF parse_date_raises(dep_date) \/ parse_date_raises(ret_date)
           THEN /\ req' = [req EXCEPT ![h] = Responded(r, "error500")]
                /\ UNCHANGED <<records, finalized>>
           ELSE IF /\ draft_id # 0
                   /\ \/ draft_id \notin DOMAIN records
                      \/ records[draft_id].email # user
           THEN /\ req' = [req EXCEPT ![h] = Responded(r, "403")]
                /\ UNCHANGED <<records, finalized>>
           ELSE \E form \in forms :
                LET id == IF draft_id # 0 THEN draft_id ELSE new_id(records)
                    email == IF draft_id # 0 THEN records[id].email ELSE user
                    rec == [email |-> email, vehicle |-> form.vehicle,
                            start_mileage |-> form.start_mileage,
                            end_mileage |-> form.end_mileage,
                            status |-> status_of_action(action)]
                    c == [r EXCEPT !.rid = id, !.committed = TRUE]
                IN  /\ id <= MaxRecords
                    /\ records' = store_after_commit(records, id, rec)
                    /\ finalized' =
                          IF rec.status = "submitted" THEN finalized \cup {id}
                          ELSE finalized
                    /\ req' = [req EXCEPT ![h] =
                                  IF action = "save"
                                  THEN Responded(c, "my_forms")
                                  ELSE [c EXCEPT !.pc = "audit_get"]]

\* the end of a submit POST: return redirect(url_for("user.form_submitted"))
vehicle_form_return(h) ==
    /\ req[h].pc = "audit_return"
    /\ req' = [req EXCEPT ![h] = Responded(req[h], "form_submitted")]
    /\ UNCHANGED <<records, finalized>>

\* admin_views.ClearDatabaseView.index, POST with both boxes confirmed:
\* every trip record is deleted
clear_database ==
    /\ records # <<>>
    /\ records' = <<>>
    /\ finalized' = {}
    /\ UNCHANGED req

-----------------------------------------------------------------------------
(* Spec: requests handled one at a time by one worker.                     *)

Workers == {1}

Forms == FormType({<<>>, <<"A">>}, {<<>>, <<"0">>}, {<<"5">>})

Init ==
    /\ records = <<>>
    /\ req = [h \in Handlers |-> IdleReq]
    /\ finalized = {}

Next ==
    \/ \E h \in Workers, user \in Users, draft_id \in 0..MaxRecords,
          action \in Actions, dep_date \in DateTexts :
          vehicle_form(h, user, draft_id, action, dep_date, <<>>, Forms)
    \/ \E h \in Workers :
          \/ audit_get_rec(h)
          \/ audit_query_others(h)
          \/ audit_query_prev(h)
          \/ send_mileage_error_alert(h)
          \/ audit_store_error(h)
          \/ vehicle_form_return(h)
    \/ clear_database

Spec == Init /\ [][Next]_vars

-----------------------------------------------------------------------------
(* SpecAudit: one audit call on every store of at most MaxRecords records. *)

StoresOf(n) == [1..n -> {r \in RecordType : r.email = "u1"}]

InitAudit ==
    /\ \E n \in 0..MaxRecords : records \in StoresOf(n)
    /\ \E id \in 1..MaxRecords :
          req = [h \in Handlers |->
                    IF h = 1 THEN AuditingReq("u1", id) ELSE IdleReq]
    /\ finalized = {i \in DOMAIN records : records[i].status = "submitted"}

NextAudit ==
    \E h \in Handlers :
        \/ audit_get_rec(h)
        \/ audit_query_others(h)
        \/ audit_query_prev(h)
        \/ send_mileage_error_alert(h)
        \/ audit_store_error(h)

SpecAudit == InitAudit /\ [][NextAudit]_vars

-----------------------------------------------------------------------------
(* SpecRace: two workers, each handling submit POSTs of new records for    *)
(* one vehicle, their steps interleaved.                                   *)

RaceForms == FormType({<<"A">>}, {<<"0">>, <<"5">>}, {<<"5">>, <<"1", ",", "1">>})

NextRace ==
    \E h \in Handlers :
        \/ vehicle_form(h, "u1", 0, "submit", <<"D">>, <<>>, RaceForms)
        \/ audit_get_rec(h)
        \/ audit_query_others(h)
        \/ audit_query_prev(h)
        \/ send_mileage_error_alert(h)
        \/ audit_store_error(h)
        \/ vehicle_form_return(h)

SpecRace == Init /\ [][NextRace]_vars

-----------------------------------------------------------------------------
(* SpecTwice: the audit is called twice, one call after the other, for the *)
(* same record on every store of at most MaxRecords records.               *)

InitTwice ==
    /\ \E n \in 0..MaxRecords : records \in StoresOf(n)
    /\ \E id \in 1..MaxRecords :
          req = [h \in Handlers |-> AuditingReq("u1", id)]
    /\ finalized = {i \in DOMAIN records : records[i].status = "submitted"}

\* the second call starts when the first has returned
NextTwice ==
    \E h \in Handlers :
        /\ h = 1 \/ req[1].pc = "audit_return"
        /\ \/ audit_get_rec(h)
           \/ audit_query_others(h)
           \/ audit_query_prev(h)
           \/ send_mileage_error_alert(h)
           \/ audit_store_error(h)

SpecTwice == InitTwice /\ [][NextTwice]_vars

-----------------------------------------------------------------------------
(* SpecParse: the audit of one submitted record whose start mileage is any *)
(* text of at most MaxTextLen characters, or NULL.                         *)

\* Longest mileage text drawn.
MaxTextLen == 3

\* whitespace, the thousands separator, signs, the underscore int() allows
\* between digits, two digits and a letter
ParseChars == {" ", ",", "-", "+", "_", "0", "1", "x"}

TextsUpTo(n) == UNION {[1..k -> ParseChars] : k \in 0..n}

InitParse ==
    /\ \E v \in TextsUpTo(MaxTextLen) \cup {NoneText} :
          records = <<[email |-> "u1", vehicle |-> <<"A">>,
                       start_mileage |-> v, end_mileage |-> <<"5">>,
                       status |-> "submitted"]>>
    /\ req = [h \in Handlers |->
                 IF h = 1 THEN AuditingReq("u1", 1) ELSE IdleReq]
    /\ finalized = {1}

SpecParse == InitParse /\ [][NextAudit]_vars

-----------------------------------------------------------------------------
(* SpecSiblings: one audit call on every store of MaxSiblings + 1 records  *)
(* of two vehicles, with mileages 0, 5, 11 and 20.                         *)

\* Number of records the store holds beside the audited one.
MaxSiblings == 2

SiblingRecords ==
    [email : {"u1"}, vehicle : {<<"A">>, <<"B">>},
     start_mileage : {<<"0">>, <<"1", ",", "1">>},
     end_mileage : {<<>>, <<"0">>, <<"5">>, <<"2", "0">>},
     status : Statuses]

InitSiblings ==
    /\ records \in [1..(MaxSiblings + 1) -> SiblingRecords]
    /\ \E id \in 1..(MaxSiblings + 1) :
          req = [h \in Handlers |->
                    IF h = 1 THEN AuditingReq("u1", id) ELSE IdleReq]
    /\ finalized = {i \in DOMAIN records : records[i].status = "submitted"}

SpecSiblings == InitSiblings /\ [][NextAudit]_vars

-----------------------------------------------------------------------------
(* Vocabulary of the properties.                                           *)

Range(s) == {s[i] : i \in 1..Len(s)}

HasIssue(r, kind) == \E i \in 1..Len(r.issues) : r.issues[i][1] = kind

\* the audit of request r has just run its overlap query
OverlapChecked(r) == r.pc = "audit_prev"

\* the audit of request r has run all its checks without a store error
ChecksDone(r) ==
    r.rec # None /\ r.exc = "none" /\ r.pc \in {"send", "audit_return"}

\* the other submitted records that carry the vehicle the audit of r looks up
Siblings(r) ==
    {c \in DOMAIN records :
        /\ c # r.rid
        /\ records[c].status = "submitted"
        /\ records[c].vehicle = r.vehicle}

Parses(text) == parse_mileage_or_none(text) # None

StartOf(c) == parse_mileage_or_none(records[c].start_mileage)[1]

EndOf(c) == parse_mileage_or_none(records[c].end_mileage)[1]

\* the siblings the half-open interval test of the specification selects
ExpectedOverlaps(r) ==
    {c \in Siblings(r) :
        /\ Parses(records[c].start_mileage)
        /\ Parses(records[c].end_mileage)
        /\ r.s0[1] < EndOf(c)
        /\ r.e0[1] > StartOf(c)}

\* C1: for a target whose start and end both parse, the records reported as
\* overlapping are exactly the other submitted same-vehicle records whose
\* mileage parses and that satisfy target_start < c.end and target_end >
\* c.start; a sibling that only touches the target's range at an endpoint is
\* not reported, and siblings with unparseable mileage are neither reported
\* nor the cause of any issue (the issues are the validity issue followed by
\* one overlap issue carrying the size of that set).
C1_OverlapSetExact ==
    \A h \in Handlers :
        LET r == req[h]
            reported == {t[1] : t \in Range(r.overlaps)}
        IN  (OverlapChecked(r) /\ r.s0 # None /\ r.e0 # None) =>
               /\ reported = ExpectedOverlaps(r)
               /\ \A c \in Siblings(r) :
                     (/\ Parses(records[c].start_mileage)
                      /\ Parses(records[c].end_mileage)
                      /\ (EndOf(c) = r.s0[1] \/ StartOf(c) = r.e0[1]))
                     => c \notin reported
               /\ \A c \in Siblings(r) :
                     (~Parses(records[c].start_mileage)
                      \/ ~Parses(records[c].end_mileage)) => c \notin reported
               /\ r.issues =
                     validity_issue(r.s0, r.e0) \o
                     (IF ExpectedOverlaps(r) = {} THEN <<>>
                      ELSE <<(<<"overlap", Cardinality(ExpectedOverlaps(r))>>)>>)

\* C1 witness: an audit has reported an overlapping sibling.
C1_Witness ==
    \E h \in Handlers :
        /\ OverlapChecked(req[h])
        /\ req[h].s0 # None /\ req[h].e0 # None
        /\ req[h].overlaps # <<>>

\* C2: a zero-width mileage range never overlaps anything: no candidate is
\* reported as overlapping when the target's range or the candidate's range
\* has start = end.
C2_ZeroWidthNeverOverlaps ==
    \A h \in Handlers :
        LET r == req[h]
        IN  OverlapChecked(r) =>
               \A i \in 1..Len(r.overlaps) :
                  /\ r.s0[1] # r.e0[1]
                  /\ r.overlaps[i][2] # r.overlaps[i][3]

\* the record the gap check compares with: the greatest id among Siblings
PreviousOf(r) == CHOOSE c \in Siblings(r) : \A d \in Siblings(r) : d <= c

\* C3: the gap issue is reported exactly when a previous record exists, its
\* end mileage parses, the target's start mileage parses and
\* target_start - previous.end_mileage > 5; gaps of exactly 5, of zero and
\* below zero are not flagged.
C3_GapExactlyWhenOverFive ==
    \A h \in Handlers :
        LET r == req[h]
        IN  ChecksDone(r) =>
               (HasIssue(r, "gap") <=>
                   /\ Siblings(r) # {}
                   /\ Parses(records[PreviousOf(r)].end_mileage)
                   /\ r.s0 # None
                   /\ r.s0[1] - EndOf(PreviousOf(r)) > 5)

\* C3 witness: an audit has reported the gap issue.
C3_Witness ==
    \E h \in Handlers : ChecksDone(req[h]) /\ HasIssue(req[h], "gap")

\* the audit of request r has returned without a store error
AuditReturned(r) == r.pc = "audit_return" /\ r.exc = "none"

\* C4: one audit call contacts the Notifier exactly once when its issue list
\* is non-empty and not at all when it is empty; a submitted record with
\* parseable start <= end and no other submitted record for its vehicle
\* yields no issue and no alert.
C4_OneAlertIffIssues ==
    \A h \in Handlers :
        LET r == req[h]
        IN  /\ r.sends <= 1
            /\ (r.pc \in {"audit_get", "audit_others", "audit_prev", "send"})
                  => r.sends = 0
            /\ AuditReturned(r) =>
                  /\ r.sends = (IF r.issues # <<>> THEN 1 ELSE 0)
                  /\ (r.alert # None) <=> (r.issues # <<>>)
            /\ (/\ AuditReturned(r)
                /\ r.rec # None
                /\ r.s0 # None /\ r.e0 # None
                /\ r.s0[1] <= r.e0[1]
                /\ ~\E c \in DOMAIN records :
                      /\ c # r.rid
                      /\ records[c].status = "submitted"
                      /\ Strip(records[c].vehicle) = r.vehicle)
               => (r.issues = <<>> /\ r.sends = 0 /\ r.alert = None)

\* C4 witness: an audit with issues has contacted the Notifier once.
C4_Witness ==
    \E h \in Handlers :
        /\ AuditReturned(req[h])
        /\ req[h].issues # <<>>
        /\ req[h].sends = 1

\* the record of request r is missing, not submitted, or has a blank vehicle
NotAuditable(r) ==
    \/ r.rid \notin DOMAIN records
    \/ records[r.rid].status # "submitted"
    \/ Strip(records[r.rid].vehicle) = <<>>

\* C5: the audit of a record that does not exist, is not submitted or has a
\* blank vehicle is a no-op: it returns having raised nothing, collected no
\* issue and sent no alert, whatever the mileage fields and the other records.
C5_NoOpWhenNotAuditable ==
    \A h \in Handlers :
        LET r == req[h]
        IN  (r.pc \notin {"idle", "audit_get"} /\ r.exc = "none"
             /\ NotAuditable(r))
            => r = AuditEnd(AuditingReq(r.user, r.rid))

\* C5 witness: the audit of a draft record whose mileage does not parse,
\* beside a submitted record, has returned.
C5_Witness ==
    \E h \in Handlers :
        /\ AuditReturned(req[h])
        /\ req[h].rid \in DOMAIN records
        /\ records[req[h].rid].status = "draft"
        /\ ~Parses(records[req[h].rid].start_mileage)
        /\ \E c \in DOMAIN records : records[c].status = "submitted"

\* C7: the audit is read-only on the record store: no step of an audit, on
\* any path, changes, creates or deletes a trip record.
C7_AuditReadOnly == [][records' = records]_vars

\* C7 witness: an audit that found issues and whose mail failed has returned.
C7_Witness ==
    \E h \in Handlers :
        /\ req[h].pc = "audit_return"
        /\ req[h].issues # <<>>
        /\ req[h].mail = "failed"

\* the worker of request r is inside the submit POST, past its commit
PastCommit(r) ==
    r.pc \in {"audit_get", "audit_others", "audit_prev", "send", "audit_return"}

\* C6: a submit POST that has persisted its record succeeds whatever the
\* audit does (no finding, findings, a store error, a Notifier failure): the
\* commit leaves the record stored with status submitted, no later step of the
\* handler touches the store, and the handler ends with the form_submitted
\* redirect, never with an error.
C6_SubmitSucceedsWhateverAudit ==
    /\ [](\A h \in Handlers :
            (req[h].pc = "done" /\ req[h].committed /\ req[h].action # "save")
            => req[h].resp = "form_submitted")
    /\ [][\A h \in Handlers :
            /\ (req[h].pc \in {"idle", "done"} /\ req'[h].pc = "audit_get")
               => /\ req'[h].rid \in DOMAIN records'
                  /\ records'[req'[h].rid].status = "submitted"
            /\ (PastCommit(req[h]) /\ req'[h] # req[h])
               => /\ records' = records
                  /\ req'[h].pc = "done" => req'[h].resp = "form_submitted"]_vars

\* C6 witness: a submit POST whose audit failed with a store error has
\* returned, its record still stored as submitted.
C6_Witness ==
    \E h \in Handlers :
        /\ req[h].pc = "done"
        /\ req[h].committed
        /\ req[h].action = "submit"
        /\ req[h].exc # "none"
        /\ \E id \in DOMAIN records : records[id].status = "submitted"

\* C8: the draft -> submitted transition is one-way: no vehicle_form request
\* returns a submitted record to draft.
C8_SubmittedNeverReverts ==
    [][\A id \in DOMAIN records :
          (records[id].status = "submitted" /\ id \in DOMAIN records')
          => records'[id].status = "submitted"]_vars

\* the step starts the audit for the record of worker h
AuditInvoked(h) == req[h].pc \in {"idle", "done"} /\ req'[h].pc = "audit_get"

\* the step takes record id from draft, or from nothing, to submitted
BecomesSubmitted(id) ==
    /\ id \in DOMAIN records'
    /\ records'[id].status = "submitted"
    /\ (id \in DOMAIN records => records[id].status = "draft")

\* C9: each record is finalized to submitted at most once, and the audit runs
\* exactly once per transition into submitted: a request invokes the audit
\* for a record exactly when it takes that record from draft (or from
\* nothing) to submitted, and no record makes that transition twice.
C9_AuditOncePerFinalization ==
    [][/\ \A h \in Handlers : AuditInvoked(h) => BecomesSubmitted(req'[h].rid)
       /\ \A id \in 1..MaxRecords :
             BecomesSubmitted(id) =>
                /\ id \notin finalized
                /\ \E h \in Handlers : AuditInvoked(h) /\ req'[h].rid = id]_vars

\* the overlap query of request r has run
OverlapQueried(r) ==
    /\ r.pc \in {"audit_prev", "send", "audit_return"}
    /\ r.rec # None
    /\ r.exc # "audit_others"

ReportedIds(r) == {t[1] : t \in Range(r.overlaps)}

\* the audits of r1 and r2 are for two records of one vehicle whose mileage
\* parses and whose ranges overlap
RacingOverlap(r1, r2) ==
    /\ OverlapQueried(r1) /\ OverlapQueried(r2)
    /\ r1.rid # r2.rid
    /\ r1.rec[1].vehicle = r2.vehicle /\ r2.rec[1].vehicle = r1.vehicle
    /\ r1.s0 # None /\ r1.e0 # None /\ r2.s0 # None /\ r2.e0 # None
    /\ r1.s0[1] < r2.e0[1] /\ r1.e0[1] > r2.s0[1]

\* C10 (amended): of two concurrent submissions with overlapping ranges for
\* one vehicle, the audit of the record committed first can run before the
\* other commit and miss the overlap, but each handler commits before it
\* audits, so the audit of the record committed second sees the first: at
\* least one of the two audits reports the overlap.
C10_AtLeastOneAuditSees ==
    \A h1 \in Handlers, h2 \in Handlers :
        (h1 # h2 /\ RacingOverlap(req[h1], req[h2])) =>
            \/ req[h2].rid \in ReportedIds(req[h1])
            \/ req[h1].rid \in ReportedIds(req[h2])

\* C10 witness: two overlapping submissions have both been audited and one of
\* the audits did not see the other record.
C10_Witness ==
    \E h1 \in Handlers, h2 \in Handlers :
        /\ h1 # h2
        /\ RacingOverlap(req[h1], req[h2])
        /\ req[h2].rid \notin ReportedIds(req[h1])

\* The interleavings of two submit POSTs: worker w takes its k-th step,
\* commit (1), the audit's load of its record (2), the overlap query (3).
Schedules ==
    {s \in [1..6 -> Handlers] : Cardinality({i \in 1..6 : s[i] = 1}) = 3}

RaceStart(store) ==
    [store |-> store, step |-> [w \in Handlers |-> 0],
     id |-> [w \in Handlers |-> 0], key |-> [w \in Handlers |-> <<>>],
     s0 |-> [w \in Handlers |-> None], e0 |-> [w \in Handlers |-> None],
     seen |-> [w \in Handlers |-> {}]]

RaceStep(st, w, form) ==
    LET k == st.step[w] + 1
        st1 == [st EXCEPT !.step[w] = k]
    IN  IF k = 1
        THEN LET id == new_id(st.store)
                 rec == [email |-> "u1", vehicle |-> form.vehicle,
                         start_mileage |-> form.start_mileage,
                         end_mileage |-> form.end_mileage,
                         status |-> status_of_action("submit")]
             IN  [st1 EXCEPT !.store = store_after_commit(st.store, id, rec),
                             !.id[w] = id]
        ELSE IF k = 2
        THEN LET rec == st.store[st.id[w]]
             IN  [st1 EXCEPT !.key[w] = Strip(rec.vehicle),
                             !.s0[w] = parse_mileage_or_none(rec.start_mileage),
                             !.e0[w] = parse_mileage_or_none(rec.end_mileage)]
        ELSE LET others == SortedSeq(others_query(st.store, st.key[w], st.id[w]))
                 rows == overlap_rows(st.s0[w], st.e0[w],
                                      parsed_rows(st.store, others))
             IN  [st1 EXCEPT !.seen[w] = {t[1] : t \in Range(rows)}]

RECURSIVE RaceRun(_, _, _, _)
RaceRun(st, sched, i, forms) ==
    IF i > Len(sched) THEN st
    ELSE RaceRun(RaceStep(st, sched[i], forms[sched[i]]), sched, i + 1, forms)

\* C10 (as claimed): there are two submissions for one vehicle with
\* overlapping ranges, and an interleaving of the two handlers (each commits,
\* then audits), in which each audit sees the other record as not yet
\* submitted, so that neither reports the overlap.
C10_BothAuditsCanMiss ==
    (records = <<>> /\ \A h \in Handlers : req[h].pc = "idle") =>
        \E fa \in RaceForms, fb \in RaceForms, sched \in Schedules :
            LET forms == [w \in Handlers |-> IF w = 1 THEN fa ELSE fb]
                end == RaceRun(RaceStart(records), sched, 1, forms)
            IN  /\ end.s0[1][1] < end.e0[2][1] /\ end.e0[1][1] > end.s0[2][1]
                /\ end.id[2] \notin end.seen[1]
                /\ end.id[1] \notin end.seen[2]

\* both calls of the audit have returned without a store error
BothReturned == AuditReturned(req[1]) /\ AuditReturned(req[2])

IsSignedDigits(u) ==
    LET body == IF u # <<>> /\ u[1] \in {"+", "-"} THEN Tail(u) ELSE u
    IN  body # <<>> /\ \A i \in 1..Len(body) : IsDigit(body[i])

RECURSIVE DecimalOf(_)
DecimalOf(d) ==
    IF d = <<>> THEN 0
    ELSE 10 * DecimalOf(SubSeq(d, 1, Len(d) - 1)) + DigitVal(d[Len(d)])

\* the base-10 integer a signed digit string denotes
SignedDecimalOf(u) ==
    IF u[1] = "-" THEN 0 - DecimalOf(Tail(u))
    ELSE IF u[1] = "+" THEN DecimalOf(Tail(u))
    ELSE DecimalOf(u)

\* the target's start mileage has been parsed by the audit of request r
StartParsed(r) == r.rec # None

\* C12: parse_mileage_or_none never raises and returns null for a null,
\* empty or whitespace-only value; the base-10 integer of the text left after
\* stripping surrounding whitespace and removing every comma when that text
\* is an optionally signed digit string; and null for any other text.
C12_ParseContract ==
    \A h \in Handlers :
        LET r == req[h]
            v == r.rec[1].start_mileage
            u == RemoveCommas(Strip(v))
        IN  StartParsed(r) =>
               r.s0 = (IF v = NoneText \/ Strip(v) = <<>> THEN None
                       ELSE IF IsSignedDigits(u) THEN Some(SignedDecimalOf(u))
                       ELSE None)

\* p is the record the gap check of request r compares with: no other
\* submitted record of the vehicle, the target apart, has a greater id
IsPrevious(r, p) == p \in Siblings(r) /\ \A q \in Siblings(r) : q <= p

\* C13: the gap check uses one record only, the submitted record of the same
\* vehicle other than the target with the greatest id, be that id smaller or
\* greater than the target's: when that record's end mileage does not parse
\* no gap is reported, whatever the older records hold; when it parses the
\* gap finding is decided by the target's start and that record's end alone;
\* when there is no such record no gap is reported.
C13_GapUsesNewestSiblingOnly ==
    \A h \in Handlers :
        LET r == req[h]
        IN  ChecksDone(r) =>
               /\ Siblings(r) = {} => ~HasIssue(r, "gap")
               /\ \A p \in DOMAIN records :
                     IsPrevious(r, p) =>
                        IF Parses(records[p].end_mileage) /\ r.s0 # None
                        THEN HasIssue(r, "gap") <=> (r.s0[1] - EndOf(p) > 5)
                        ELSE ~HasIssue(r, "gap")

\* C13 witness: the newest sibling has a greater id than the target and an
\* end mileage that does not parse, an older sibling's end lies more than 5
\* below the target's start, and the audit has reported no gap.
C13_Witness ==
    \E h \in Handlers :
        LET r == req[h]
        IN  /\ ChecksDone(r)
            /\ r.s0 # None
            /\ \E p \in DOMAIN records, q \in DOMAIN records :
                  /\ IsPrevious(r, p)
                  /\ p > r.rid
                  /\ ~Parses(records[p].end_mileage)
                  /\ q \in Siblings(r) /\ q < p
                  /\ Parses(records[q].end_mileage)
                  /\ r.s0[1] - EndOf(q) > 5
            /\ ~HasIssue(r, "gap")

\* the other submitted records whose stored vehicle string equals, character
\* for character, the stored vehicle string of the target of request r
ExactParticipants(r) ==
    {c \in DOMAIN records :
        /\ c # r.rid
        /\ records[c].status = "submitted"
        /\ records[c].vehicle = records[r.rid].vehicle}

\* C14: the records that take part in the overlap and gap checks of a target
\* are exactly the other submitted records whose vehicle string equals the
\* target's stored vehicle string: the overlapping rows and the gap finding
\* are those that these records alone give, so that drafts and records whose
\* vehicle differs in any character, surrounding whitespace included, have
\* no effect on the audit.
C14_ExactVehicleParticipants ==
    \A h \in Handlers :
        LET r == req[h]
            P == ExactParticipants(r)
            newest == CHOOSE p \in P : \A q \in P : q <= p
        IN  ChecksDone(r) =>
               /\ ReportedIds(r) =
                     {c \in P :
                         /\ r.s0 # None /\ r.e0 # None
                         /\ Parses(records[c].start_mileage)
                         /\ Parses(records[c].end_mileage)
                         /\ r.s0[1] < EndOf(c)
                         /\ r.e0[1] > StartOf(c)}
               /\ HasIssue(r, "gap") <=>
                     /\ P # {}
                     /\ r.s0 # None
                     /\ Parses(records[newest].end_mileage)
                     /\ r.s0[1] - EndOf(newest) > 5

\* the place of an issue in the order validity, overlap, gap
IssueRank(it) ==
    IF it[1] \in {"invalid", "end_lt_start"} THEN 1
    ELSE IF it[1] = "overlap" THEN 2
    ELSE 3

\* C15: the issue list of an audit holds at most one issue of each kind, in
\* the order validity, overlap, gap; the validity issue is "Invalid or
\* missing mileage" exactly when a bound of the target does not parse and
\* "End mileage < start mileage" exactly when both parse and end < start,
\* never both; the Findings section of the alert body is that list.
C15_IssuesOrderedOnePerKind ==
    \A h \in Handlers :
        LET r == req[h]
        IN  /\ \A i \in 1..Len(r.issues), j \in 1..Len(r.issues) :
                  i < j => IssueRank(r.issues[i]) < IssueRank(r.issues[j])
            /\ r.rec # None =>
                  /\ HasIssue(r, "invalid") <=> (r.s0 = None \/ r.e0 = None)
                  /\ HasIssue(r, "end_lt_start") <=>
                        (r.s0 # None /\ r.e0 # None /\ r.e0[1] < r.s0[1])
            /\ r.alert # None => r.alert[1].body.findings = r.issues

\* C15 witness: an audit has built an alert whose findings are an "end <
\* start" issue, an overlap issue and a gap issue, in that order.
C15_Witness ==
    \E h \in Handlers :
        LET r == req[h]
        IN  /\ ChecksDone(r)
            /\ Len(r.issues) = 3
            /\ r.issues[1][1] = "end_lt_start"
            /\ r.issues[2][1] = "overlap"
            /\ r.issues[3][1] = "gap"
            /\ r.alert # None
            /\ r.alert[1].body.findings = r.issues

\* the newest sibling of the target of request r gives a gap above the limit
GapDue(r) ==
    /\ Siblings(r) # {}
    /\ Parses(records[PreviousOf(r)].end_mileage)
    /\ r.s0[1] - EndOf(PreviousOf(r)) > 5

\* C16: the gap check looks at the target's start mileage only. For a target
\* whose start parses and whose end does not, the audit reports no overlap
\* issue, and reports the gap issue whenever the previous record's end parses
\* and start - previous_end > 5: the alert's findings are then the invalid
\* mileage issue followed by the gap issue. For a target whose start does not
\* parse neither the overlap nor the gap issue is reported.
C16_GapNeedsStartOnly ==
    \A h \in Handlers :
        LET r == req[h]
        IN  ChecksDone(r) =>
               /\ (r.s0 # None /\ r.e0 = None) =>
                     /\ ~HasIssue(r, "overlap")
                     /\ r.overlaps = <<>>
                     /\ GapDue(r) =>
                           /\ r.issues = <<(<<"invalid">>), (<<"gap">>)>>
                           /\ r.alert # None
                           /\ r.alert[1].body.findings = r.issues
                     /\ ~GapDue(r) => r.issues = <<(<<"invalid">>)>>
               /\ r.s0 = None =>
                     /\ r.issues = <<(<<"invalid">>)>>
                     /\ r.overlaps = <<>>

\* C16 witness: an audit of a target whose end mileage does not parse has
\* built an alert carrying the invalid mileage issue and the gap issue.
C16_Witness ==
    \E h \in Handlers :
        LET r == req[h]
        IN  /\ ChecksDone(r)
            /\ r.s0 # None /\ r.e0 = None
            /\ r.issues = <<(<<"invalid">>), (<<"gap">>)>>
            /\ r.alert # None

====
